---------------------------- MODULE Spec2Model ----------------------------
(* A state-machine model of the CHIP-8 interpreter in src/chip8.py: the    *)
(* Chip8 object's fields, one action per instruction handler (each action  *)
(* is one whole call of _cycle_clock), and the main loop's halt on the     *)
(* first exception.  Python lists are modelled as sequences; list index k  *)
(* is sequence index k + 1.  opcode is _cycle_clock's local of that name,  *)
(* error the exception that ended the run; last (pc, sp, V and I at the    *)
(* start of the latest cycle) and calls (the subroutine calls made and not *)
(* returned from) are history variables.                                   *)
EXTENDS Integers, Sequences, FiniteSets, TLC

VARIABLES ram, V, I, pc, stack, sp, t_delay, t_sound, display, clock,
          opcode, error, last, calls

vars == <<ram, V, I, pc, stack, sp, t_delay, t_sound, display, clock,
          opcode, error, last, calls>>

(***************************************************************************)
(* Bounds of the model.                                                    *)
(***************************************************************************)
\* Cycles the main loop is followed for (self.clock is unbounded in the code).
MaxClock == 17
\* Instructions in the varied part of a ROM.
MaxBody == 1

(***************************************************************************)
(* Python built-ins as the handlers use them.                              *)
(***************************************************************************)
Min(a, b) == IF a <= b THEN a ELSE b
Max(a, b) == IF a >= b THEN a ELSE b

\* The default of the call stack's slots.
None == -1

\* a & b on non-negative integers.
RECURSIVE BitAnd(_, _)
BitAnd(a, b) ==
    IF a = 0 \/ b = 0 THEN 0
    ELSE ((a % 2) * (b % 2)) + 2 * BitAnd(a \div 2, b \div 2)

\* a | b on non-negative integers.
RECURSIVE BitOr(_, _)
BitOr(a, b) ==
    IF a = 0 THEN b
    ELSE IF b = 0 THEN a
    ELSE Max(a % 2, b % 2) + 2 * BitOr(a \div 2, b \div 2)

\* a ^ b on non-negative integers.
RECURSIVE BitXor(_, _)
BitXor(a, b) ==
    IF a = 0 THEN b
    ELSE IF b = 0 THEN a
    ELSE (((a % 2) + (b % 2)) % 2) + 2 * BitXor(a \div 2, b \div 2)

\* a << n and a >> n.
Shl(a, n) == a * 2^n
Shr(a, n) == a \div 2^n

\* lst[a:b] for 0 <= a, 0 <= b: both ends are clamped to len(lst).
PySlice(lst, a, b) == SubSeq(lst, Min(a, Len(lst)) + 1, Min(b, Len(lst)))

\* lst[a:b] = new for 0 <= a, 0 <= b: the (clamped, possibly empty) slice is
\* replaced by new, whatever new's length, so the list may grow or shrink.
PySliceAssign(lst, a, b, new) ==
    LET lo == Min(a, Len(lst))
        hi == Max(lo, Min(b, Len(lst)))
    IN  SubSeq(lst, 1, lo) \o new \o SubSeq(lst, hi + 1, Len(lst))

\* lst[k] is an IndexError unless 0 <= k < len(lst).
InRange(lst, k) == 0 <= k /\ k < Len(lst)
At(lst, k) == lst[k + 1]
\* lst[k] = val, for k in range.
SetAt(lst, k, val) == [lst EXCEPT ![k + 1] = val]

\* [int(i) for i in '{0:08b}'.format(val)]: the binary digits of val, most
\* significant first, zero-padded on the left to at least 8 digits.
RECURSIVE BinDigits(_)
BinDigits(val) ==
    IF val < 2 THEN <<val>> ELSE BinDigits(val \div 2) \o <<val % 2>>
Format08b(val) ==
    LET d == BinDigits(val)
    IN  [k \in 1..(8 - Len(d)) |-> 0] \o d

(***************************************************************************)
(* Chip8.__init__                                                          *)
(***************************************************************************)
clock_speed == 512
rtc_mod == clock_speed \div 60

Font ==
    << 240, 144, 144, 144, 240,
        32,  96,  32,  32, 112,
       240,  16, 240, 128, 240,
       240,  16, 240,  16, 240,
       144, 144, 240,  16,  16,
       240, 128, 240,  16, 240,
       240, 128, 240, 144, 240,
       240,  16,  32,  64,  64,
       240, 144, 240, 144, 240,
       240, 144, 240,  16, 240,
       240, 144, 240, 144, 144,
       224, 144, 224, 144, 224,
       240, 128, 128, 128, 240,
       224, 144, 144, 144, 224,
       240, 128, 240, 128, 240,
       240, 128, 240, 128, 128 >>

\* The bytes of a ROM file that holds the instruction words ws, in file order.
RECURSIVE RomBytes(_)
RomBytes(ws) ==
    IF ws = <<>> THEN <<>>
    ELSE <<Head(ws) \div 256, Head(ws) % 256>> \o RomBytes(Tail(ws))

\* [val] * n
Repeat(val, n) == [k \in 1..n |-> val] \o <<>>

\* self.ram after __init__: 4096 zeroed cells, then load_rom (the file's bytes
\* from address 0x200 on, one byte a cell in file order; a file of more than
\* 3584 bytes does not load), then the font in self.ram[:80].
load_rom(bytes) ==
    PySliceAssign(PySliceAssign(Repeat(0, 4096), 512, 512 + Len(bytes), bytes),
                  0, 80, Font)

(***************************************************************************)
(* The ROM file handed to Chip8(rom): a setup sequence that brings the     *)
(* machine into a state of interest, followed by up to MaxBody further     *)
(* instruction words.                                                      *)
(***************************************************************************)
Words ==
    { 4606,  \* 11FE  jump (to 0x1FE)
      8191,  \* 1FFF  jump to the last address
      8704,  \* 2200  call
      8702,  \* 21FE  call (of 0x1FE)
      12488, \* 30C8  skip if V0 == 200
      16584, \* 40C8  skip if V0 != 200
      20496, \* 5010  skip if V0 == V1
      12544, \* 3100  skip if V1 == 0
      24776, \* 60C8  V0 = 200
      24932, \* 6164  V1 = 100
      28780, \* 706C  V0 += 108
      33024, \* 8100  V1 = V0
      32785, \* 8011  V0 |= V1
      32786, \* 8012  V0 &= V1
      32787, \* 8013  V0 ^= V1
      32788, \* 8014  V0 += V1
      32789, \* 8015  V0 -= V1
      32790, \* 8016  no such 8XY? handler
      41712, \* A2F0  I = 0x2F0
      45055, \* AFFF  I = 0xFFF
      45566, \* B1FE  jump to V0 + 0x1FE
      49407, \* C0FF  V0 = random
      53249, \* D001  draw 1 row
      53522, \* D112  draw 2 rows
      61481, \* F029  font glyph of V0
      61747, \* F133  BCD of V1
      61781, \* F155  store V0..V1
      61797, \* F165  load V0..V1
      61695, \* F0FF  no such FX?? handler
      238,   \* 00EE  return
      36880  \* 9010  no handler for the top nibble
    }

Setups ==
    { <<>>,
      <<24776, 24932>>,  \* 60C8 6164: V0 = 200, V1 = 100
      <<24586, 24835>>,  \* 600A 6103: V0 = 10, V1 = 3
      <<8704>>,          \* 2200: inside a subroutine called from 0x200
      <<45055, 65381>>,  \* AFFF FF65: load V0..VF from the last memory cell
      <<24831, 61525>>,  \* 60FF F055: an all-ones sprite byte at memory[I]
      <<24776, 24932, 61781>>,  \* 60C8 6164 F155: V0, V1 stored at memory[I]
      <<45055, 65381, 41712>>   \* AFFF FF65 A2F0: as AFFF FF65, then I = 0x2F0
    }

RECURSIVE BodiesOfLen(_)
BodiesOfLen(n) ==
    IF n = 0 THEN {<<>>}
    ELSE {Append(b, w) : b \in BodiesOfLen(n - 1), w \in Words}

Roms == {s \o b : s \in Setups, b \in UNION {BodiesOfLen(n) : n \in 0..MaxBody}}

\* The values random.randint(0, 255) is followed for.
RandBytes == {0, 100, 255}

Init ==
    /\ \E rom \in Roms : ram = load_rom(RomBytes(rom))
    /\ V = Repeat(0, 16)
    /\ I = 0
    /\ pc = 512
    /\ stack = Repeat(None, 16)
    /\ sp = 0
    /\ t_delay = 0
    /\ t_sound = 0
    /\ display = Repeat(0, 64 * 32)
    /\ clock = 0
    /\ opcode = None
    /\ error = "none"
    /\ last = [pc |-> 512, sp |-> 0, V |-> Repeat(0, 16), I |-> 0]
    /\ calls = 0

(***************************************************************************)
(* _cycle_clock: the parts every handler's cycle shares.                   *)
(***************************************************************************)
\* self.ram[self.pc] and self.ram[self.pc + 1] are both there.
Fetchable == InRange(ram, pc) /\ InRange(ram, pc + 1)

\* The fetch with the two bytes swapped: the byte at the lower address taken
\* as the low byte.
Word_LowByteFirst == BitOr(At(ram, pc), Shl(At(ram, pc + 1), 8))

\* opcode = self.ram[self.pc] << 8 | self.ram[self.pc + 1]
Word == BitOr(Shl(At(ram, pc), 8), At(ram, pc + 1))

\* The decoded fields, as the handlers mask and shift them.
TopNibble(op) == BitAnd(op, 61440)            \* opcode & 0xF000
X(op) == Shr(BitAnd(op, 3840), 8)             \* (opcode & 0x0F00) >> 8
Y(op) == Shr(BitAnd(op, 240), 4)              \* (opcode & 0x00F0) >> 4
NN(op) == BitAnd(op, 255)                     \* opcode & 0x00FF
NNN(op) == BitAnd(op, 4095)                   \* opcode & 0x0FFF

\* The keys of self.instructions.
instructions ==
    {4096, 8192, 12288, 16384, 20480, 24576, 28672, 32768,
     40960, 45056, 49152, 53248, 61440}

\* The main loop is still running and calls _cycle_clock once more.
Running == error = "none" /\ clock < MaxClock

\* The cycle up to the call of the handler: the clock, the fetch, and the
\* values of pc, sp, V and I the cycle started from.
Begin ==
    /\ Running
    /\ Fetchable
    /\ clock' = clock + 1
    /\ opcode' = Word
    /\ last' = [pc |-> pc, sp |-> sp, V |-> V, I |-> I]

\* The end of a cycle whose timers count down without the test for zero.
Return_NoZeroTest(newpc) ==
    /\ pc' = newpc + 2
    /\ IF clock' % rtc_mod = 0
       THEN /\ t_delay' = t_delay - 1
            /\ t_sound' = t_sound - 1
       ELSE UNCHANGED <<t_delay, t_sound>>
    /\ error' = "none"

\* The cycle after the handler has returned with self.pc == newpc: the
\* generic advance and the timers.
Return(newpc) ==
    /\ pc' = newpc + 2
    /\ IF clock' % rtc_mod = 0
       THEN /\ t_delay' = IF t_delay > 0 THEN t_delay - 1 ELSE t_delay
            /\ t_sound' = IF t_sound > 0 THEN t_sound - 1 ELSE t_sound
       ELSE UNCHANGED <<t_delay, t_sound>>
    /\ error' = "none"

\* The handler raised: the exception leaves _cycle_clock and ends the main
\* loop.
Raise(e) ==
    /\ error' = e
    /\ UNCHANGED <<pc, t_delay, t_sound>>

\* self.ram[self.pc] or self.ram[self.pc + 1] is out of range.
FetchIndexError ==
    /\ Running
    /\ ~Fetchable
    /\ clock' = clock + 1
    /\ last' = [pc |-> pc, sp |-> sp, V |-> V, I |-> I]
    /\ Raise("IndexError")
    /\ UNCHANGED <<ram, V, I, stack, sp, calls, display, opcode>>

\* A dispatch that passes over a word without a handler instead of raising.
DispatchKeyError_Skip ==
    /\ Begin
    /\ TopNibble(Word) \notin instructions
    /\ Return(pc)
    /\ UNCHANGED <<ram, V, I, stack, sp, calls, display>>

\* self.instructions[opcode & 0xF000] has no such key.
DispatchKeyError ==
    /\ Begin
    /\ TopNibble(Word) \notin instructions
    /\ Raise("KeyError")
    /\ UNCHANGED <<ram, V, I, stack, sp, calls, display>>

(***************************************************************************)
(* The instruction set: each action is one cycle that dispatches to the    *)
(* handler of its name.                                                    *)
(***************************************************************************)
\* Goto NNN.
op_1NNN ==
    /\ Begin
    /\ TopNibble(Word) = 4096
    /\ Return(NNN(Word))
    /\ UNCHANGED <<ram, V, I, stack, sp, calls, display>>

\* Call subroutine: self.stack[self.sp] = self.pc, and self.sp stays.  calls
\* counts the calls made and not returned from (no handler returns).
op_2NNN ==
    /\ Begin
    /\ TopNibble(Word) = 8192
    /\ IF InRange(stack, sp)
       THEN /\ stack' = SetAt(stack, sp, pc)
            /\ Return(NNN(Word))
            /\ calls' = calls + 1
       ELSE /\ Raise("IndexError")
            /\ UNCHANGED <<stack, calls>>
    /\ UNCHANGED <<ram, V, I, sp, display>>

\* Skip next instruction if Vx == NN.
op_3XNN ==
    /\ Begin
    /\ TopNibble(Word) = 12288
    /\ IF InRange(V, X(Word))
       THEN Return(IF At(V, X(Word)) = NN(Word) THEN pc + 2 ELSE pc)
       ELSE Raise("IndexError")
    /\ UNCHANGED <<ram, V, I, stack, sp, calls, display>>

\* Skip next instruction if Vx != NN.
op_4XNN ==
    /\ Begin
    /\ TopNibble(Word) = 16384
    /\ IF InRange(V, X(Word))
       THEN Return(IF At(V, X(Word)) # NN(Word) THEN pc + 2 ELSE pc)
       ELSE Raise("IndexError")
    /\ UNCHANGED <<ram, V, I, stack, sp, calls, display>>

\* Skip next instruction if Vx == Vy.
op_5XY0 ==
    /\ Begin
    /\ TopNibble(Word) = 20480
    /\ IF InRange(V, X(Word)) /\ InRange(V, Y(Word))
       THEN Return(IF At(V, X(Word)) = At(V, Y(Word)) THEN pc + 2 ELSE pc)
       ELSE Raise("IndexError")
    /\ UNCHANGED <<ram, V, I, stack, sp, calls, display>>

\* Set Vx to NN.
op_6XNN ==
    /\ Begin
    /\ TopNibble(Word) = 24576
    /\ IF InRange(V, X(Word))
       THEN /\ V' = SetAt(V, X(Word), NN(Word))
            /\ Return(pc)
       ELSE /\ Raise("IndexError")
            /\ UNCHANGED V
    /\ UNCHANGED <<ram, I, stack, sp, calls, display>>

\* self._8bit
_8bit(val) == val % 256

\* Increment Vx by NN.
op_7XNN ==
    /\ Begin
    /\ TopNibble(Word) = 28672
    /\ IF InRange(V, X(Word))
       THEN /\ V' = SetAt(V, X(Word), _8bit(At(V, X(Word)) + NN(Word)))
            /\ Return(pc)
       ELSE /\ Raise("IndexError")
            /\ UNCHANGED V
    /\ UNCHANGED <<ram, I, stack, sp, calls, display>>

\* op_8000's key, opcode & 0xF00F.
Sub8(op) == BitAnd(op, 61455)

\* The cycle up to the call of an 8XY? handler.
Begin8(key) ==
    /\ Begin
    /\ TopNibble(Word) = 32768
    /\ Sub8(Word) = key

\* op_8000's dictionary has no such key.
op_8000_KeyError ==
    /\ Begin
    /\ TopNibble(Word) = 32768
    /\ Sub8(Word) \notin {32768, 32769, 32770, 32771, 32772, 32773}
    /\ Raise("KeyError")
    /\ UNCHANGED <<ram, V, I, stack, sp, calls, display>>

\* Set Vx to value of Vy.
op_8XY0 ==
    /\ Begin8(32768)
    /\ IF InRange(V, Y(Word)) /\ InRange(V, X(Word))
       THEN /\ V' = SetAt(V, X(Word), At(V, Y(Word)))
            /\ Return(pc)
       ELSE /\ Raise("IndexError")
            /\ UNCHANGED V
    /\ UNCHANGED <<ram, I, stack, sp, calls, display>>

\* self.V[x] = self.V[x] | self.V[y]
op_8XY1 ==
    /\ Begin8(32769)
    /\ IF InRange(V, X(Word)) /\ InRange(V, Y(Word))
       THEN /\ V' = SetAt(V, X(Word), BitOr(At(V, X(Word)), At(V, Y(Word))))
            /\ Return(pc)
       ELSE /\ Raise("IndexError")
            /\ UNCHANGED V
    /\ UNCHANGED <<ram, I, stack, sp, calls, display>>

\* self.V[y] = self.V[x] & self.V[y]
op_8XY2 ==
    /\ Begin8(32770)
    /\ IF InRange(V, X(Word)) /\ InRange(V, Y(Word))
       THEN /\ V' = SetAt(V, Y(Word), BitAnd(At(V, X(Word)), At(V, Y(Word))))
            /\ Return(pc)
       ELSE /\ Raise("IndexError")
            /\ UNCHANGED V
    /\ UNCHANGED <<ram, I, stack, sp, calls, display>>

\* self.V[y] = self.V[x] ^ self.V[y]
op_8XY3 ==
    /\ Begin8(32771)
    /\ IF InRange(V, X(Word)) /\ InRange(V, Y(Word))
       THEN /\ V' = SetAt(V, Y(Word), BitXor(At(V, X(Word)), At(V, Y(Word))))
            /\ Return(pc)
       ELSE /\ Raise("IndexError")
            /\ UNCHANGED V
    /\ UNCHANGED <<ram, I, stack, sp, calls, display>>

\* int(sum > 0xFFFF)
Carry(sum) == IF sum > 65535 THEN 1 ELSE 0

\* sum = Vx + Vy; VF = int(sum > 0xFFFF); Vx = _8bit(sum), in this order.
op_8XY4 ==
    /\ Begin8(32772)
    /\ IF InRange(V, X(Word)) /\ InRange(V, Y(Word))
       THEN LET sum == At(V, X(Word)) + At(V, Y(Word))
            IN  IF InRange(V, 15)
                THEN /\ V' = SetAt(SetAt(V, 15, Carry(sum)), X(Word), _8bit(sum))
                     /\ Return(pc)
                ELSE /\ Raise("IndexError")
                     /\ UNCHANGED V
       ELSE /\ Raise("IndexError")
            /\ UNCHANGED V
    /\ UNCHANGED <<ram, I, stack, sp, calls, display>>

\* int(sub > 0x0000)
NoBorrow(sub) == IF sub > 0 THEN 1 ELSE 0

\* sub = Vx + Vy; VF = int(sub > 0); then self._8bit(sum), where sum is not a
\* local of this handler but Python's built-in function: sum % 256 is a
\* TypeError, raised after VF was written and before Vx is.
op_8XY5 ==
    /\ Begin8(32773)
    /\ IF InRange(V, X(Word)) /\ InRange(V, Y(Word))
       THEN LET sub == At(V, X(Word)) + At(V, Y(Word))
            IN  IF InRange(V, 15)
                THEN /\ V' = SetAt(V, 15, NoBorrow(sub))
                     /\ Raise("TypeError")
                ELSE /\ Raise("IndexError")
                     /\ UNCHANGED V
       ELSE /\ Raise("IndexError")
            /\ UNCHANGED V
    /\ UNCHANGED <<ram, I, stack, sp, calls, display>>

\* Set I to NNN.
op_ANNN ==
    /\ Begin
    /\ TopNibble(Word) = 40960
    /\ I' = NNN(Word)
    /\ Return(pc)
    /\ UNCHANGED <<ram, V, stack, sp, calls, display>>

\* self.pc = self.V[0] + NNN
op_BNNN ==
    /\ Begin
    /\ TopNibble(Word) = 45056
    /\ IF InRange(V, 0)
       THEN Return(At(V, 0) + NNN(Word))
       ELSE Raise("IndexError")
    /\ UNCHANGED <<ram, V, I, stack, sp, calls, display>>

\* Vx = random.randint(0, 255) & NN
op_CXNN ==
    /\ Begin
    /\ TopNibble(Word) = 49152
    /\ \E r \in RandBytes :
          IF InRange(V, X(Word))
          THEN /\ V' = SetAt(V, X(Word), BitAnd(r, NN(Word)))
               /\ Return(pc)
          ELSE /\ Raise("IndexError")
               /\ UNCHANGED V
    /\ UNCHANGED <<ram, I, stack, sp, calls, display>>

\* The loop of op_DXYN from row y_offset on, over the display disp: x0 and y0
\* are the masked and unshifted nibbles opcode & 0x0F00 and opcode & 0x00F0,
\* and each row is a slice assignment with the start y * 64 + x0 and the stop
\* y + 64 + x0 + 8.  The result is the display the loop leaves and whether
\* self.ram[ptr] raised an IndexError on the way.
RECURSIVE DrawRows(_, _, _, _, _, _)
DrawRows(disp, x0, y0, h, ptr, y_offset) ==
    IF y_offset >= h THEN [display |-> disp, raised |-> FALSE]
    ELSE IF ~InRange(ram, ptr) THEN [display |-> disp, raised |-> TRUE]
    ELSE LET row == Format08b(At(ram, ptr))
             y == y0 + y_offset
         IN  DrawRows(PySliceAssign(disp, y * 64 + x0, y + 64 + x0 + 8, row),
                      x0, y0, h, ptr + 1, y_offset + 1)

\* Draw a sprite of height N from address I.
op_DXYN ==
    /\ Begin
    /\ TopNibble(Word) = 53248
    /\ LET x0 == BitAnd(Word, 3840)
           y0 == BitAnd(Word, 240)
           h == BitAnd(Word, 15)
           drawn == DrawRows(display, x0, y0, h, I, 0)
       IN  /\ display' = drawn.display
           /\ IF drawn.raised THEN Raise("IndexError") ELSE Return(pc)
    /\ UNCHANGED <<ram, V, I, stack, sp, calls>>

\* The cycle up to the call of an FX?? handler: op_F000's key is
\* opcode & 0x00FF.
BeginF(key) ==
    /\ Begin
    /\ TopNibble(Word) = 61440
    /\ NN(Word) = key

\* op_F000's dictionary has no such key.
op_F000_KeyError ==
    /\ Begin
    /\ TopNibble(Word) = 61440
    /\ NN(Word) \notin {41, 51, 85, 101}
    /\ Raise("KeyError")
    /\ UNCHANGED <<ram, V, I, stack, sp, calls, display>>

\* self.ram[self.I:self.I + 4] = self.ram[Vx * 4:(Vx + 1) * 4]
op_FX29 ==
    /\ BeginF(41)
    /\ IF ~InRange(V, X(Word))
       THEN /\ Raise("IndexError")
            /\ UNCHANGED ram
       ELSE LET Vx == At(V, X(Word))
            IN  IF Vx > 15
                THEN /\ Raise("ValueError")
                     /\ UNCHANGED ram
                ELSE /\ ram' = PySliceAssign(ram, I, I + 4,
                                             PySlice(ram, Vx * 4, (Vx + 1) * 4))
                     /\ Return(pc)
    /\ UNCHANGED <<V, I, stack, sp, calls, display>>

\* Convert Vx to BCD, store in 3 bytes starting at I: three assignments in a
\* row, each an IndexError when its cell is not there.
op_FX33 ==
    /\ BeginF(51)
    /\ IF ~InRange(V, X(Word))
       THEN /\ Raise("IndexError")
            /\ UNCHANGED ram
       ELSE LET Vx == At(V, X(Word))
                ram1 == SetAt(ram, I + 0, Vx \div 100)
                ram2 == SetAt(ram1, I + 1, (Vx % 100) \div 10)
                ram3 == SetAt(ram2, I + 2, Vx % 10)
            IN  IF ~InRange(ram, I + 0)
                THEN Raise("IndexError") /\ UNCHANGED ram
                ELSE IF ~InRange(ram, I + 1)
                THEN Raise("IndexError") /\ ram' = ram1
                ELSE IF ~InRange(ram, I + 2)
                THEN Raise("IndexError") /\ ram' = ram2
                ELSE Return(pc) /\ ram' = ram3
    /\ UNCHANGED <<V, I, stack, sp, calls, display>>

\* Copy V0-Vx to ram, beginning at I.
op_FX55 ==
    /\ BeginF(85)
    /\ LET V_slice == PySlice(V, 0, X(Word) + 1)
       IN  ram' = PySliceAssign(ram, I, I + Len(V_slice), V_slice)
    /\ Return(pc)
    /\ UNCHANGED <<V, I, stack, sp, calls, display>>

\* Copy x values from ram starting at I to V0-Vx.
op_FX65 ==
    /\ BeginF(101)
    /\ LET x == X(Word)
           ram_slice == PySlice(ram, I, I + x + 1)
       IN  V' = PySliceAssign(V, 0, x + 1, ram_slice)
    /\ Return(pc)
    /\ UNCHANGED <<ram, I, stack, sp, calls, display>>

(***************************************************************************)
(* The main loop: cycles until one raises.                                 *)
(***************************************************************************)
Next ==
    \/ FetchIndexError
    \/ DispatchKeyError
    \/ op_1NNN
    \/ op_2NNN
    \/ op_3XNN
    \/ op_4XNN
    \/ op_5XY0
    \/ op_6XNN
    \/ op_7XNN
    \/ op_8000_KeyError
    \/ op_8XY0
    \/ op_8XY1
    \/ op_8XY2
    \/ op_8XY3
    \/ op_8XY4
    \/ op_8XY5
    \/ op_ANNN
    \/ op_BNNN
    \/ op_CXNN
    \/ op_DXYN
    \/ op_F000_KeyError
    \/ op_FX29
    \/ op_FX33
    \/ op_FX55
    \/ op_FX65

Spec == Init /\ [][Next]_vars

(***************************************************************************)
(* The claims.  A step with clock' = clock + 1 is one call of              *)
(* _cycle_clock; Word is the instruction word it fetches, at the address   *)
(* pc.  ClaimStep(key, mask) is such a cycle on a machine whose register   *)
(* file still has its sixteen registers.                                   *)
(***************************************************************************)
Cycle == clock' = clock + 1 /\ Fetchable
ClaimStep(mask, key) == Cycle /\ BitAnd(Word, mask) = key /\ Len(V) = 16

\* C1: a cycle executing 8XY4 with X # 0xF leaves V[X] = (V[X] + V[Y]) mod 256
\* and VF = 1 if the unwrapped sum exceeds 255, else 0.
C1_AddCarry ==
    [][ClaimStep(61455, 32772) /\ X(Word) # 15 =>
        LET sum == At(V, X(Word)) + At(V, Y(Word))
        IN  /\ error' = "none"
            /\ Len(V') = 16
            /\ At(V', X(Word)) = sum % 256
            /\ At(V', 15) = IF sum > 255 THEN 1 ELSE 0]_vars

\* C2: a cycle executing 8XY5 with X # 0xF completes without error and leaves
\* V[X] = (V[X] - V[Y]) mod 256 and VF = 1 if V[X] >= V[Y], else 0.
C2_SubNoBorrow ==
    [][ClaimStep(61455, 32773) /\ X(Word) # 15 =>
        LET Vx == At(V, X(Word))
            Vy == At(V, Y(Word))
        IN  /\ error' = "none"
            /\ Len(V') = 16
            /\ At(V', X(Word)) = (Vx - Vy) % 256
            /\ At(V', 15) = IF Vx >= Vy THEN 1 ELSE 0]_vars

\* C3: after a cycle that executes a jump, PC is exactly the jump target:
\* NNN after 1NNN, V[0] + NNN after BNNN.
C3_JumpTarget ==
    [][/\ ClaimStep(61440, 4096) => pc' = NNN(Word)
       /\ ClaimStep(61440, 45056) => pc' = At(V, 0) + NNN(Word)]_vars

\* C4: a cycle executing 2NNN with fewer than 16 return addresses on the
\* stack stores the calling instruction's PC in the slot at the old SP,
\* increases SP by 1, leaves the other slots unchanged and ends with PC = NNN.
C4_CallPushes ==
    [][ClaimStep(61440, 8192) /\ sp < 16 =>
        /\ error' = "none"
        /\ stack' = SetAt(stack, sp, pc)
        /\ sp' = sp + 1
        /\ pc' = NNN(Word)]_vars

\* C5: when the cycle after a 2NNN executes 00EE, the stack depth is back at
\* its value before the call and PC is the address that follows the 2NNN.
C5_CallReturn ==
    [][/\ Cycle
       /\ clock >= 1 /\ error = "none" /\ TopNibble(opcode) = 8192
       /\ last.sp < 16
       /\ Word = 238
       => /\ error' = "none"
          /\ sp' = last.sp
          /\ pc' = last.pc + 2]_vars

\* C6: a cycle executing 8XY1, 8XY2 or 8XY3 with X # Y stores V[X] OR V[Y],
\* V[X] AND V[Y], V[X] XOR V[Y] in V[X] and leaves every other register
\* unchanged.
C6_BitwiseOps ==
    [][\A k \in 1..3 :
        ClaimStep(61455, 32768 + k) /\ X(Word) # Y(Word) =>
            LET Vx == At(V, X(Word))
                Vy == At(V, Y(Word))
                res == CASE k = 1 -> BitOr(Vx, Vy)
                         [] k = 2 -> BitAnd(Vx, Vy)
                         [] k = 3 -> BitXor(Vx, Vy)
            IN  error' = "none" /\ V' = SetAt(V, X(Word), res)]_vars

\* Whether the skip condition of the conditional skip in Word holds; a
\* register that is not there satisfies no condition.
SkipCondition ==
    CASE TopNibble(Word) = 12288 ->
            InRange(V, X(Word)) /\ At(V, X(Word)) = NN(Word)
      [] TopNibble(Word) = 16384 ->
            InRange(V, X(Word)) /\ At(V, X(Word)) # NN(Word)
      [] TopNibble(Word) = 20480 ->
            /\ InRange(V, X(Word)) /\ InRange(V, Y(Word))
            /\ At(V, X(Word)) = At(V, Y(Word))
      [] OTHER -> FALSE

\* C7: a cycle executing 3XNN, 4XNN or 5XY0 leaves PC at the instruction's
\* address + 4 when the skip condition holds and at its address + 2 when it
\* does not.
C7_SkipAdvance ==
    [][Cycle /\ TopNibble(Word) \in {12288, 16384, 20480} =>
        pc' = IF SkipCondition THEN pc + 4 ELSE pc + 2]_vars

\* C7 on a register file of sixteen registers.
C7_SkipAdvance16 ==
    [][Cycle /\ Len(V) = 16 /\ TopNibble(Word) \in {12288, 16384, 20480} =>
        pc' = IF SkipCondition THEN pc + 4 ELSE pc + 2]_vars

SpriteBit(k) ==
    LET r == ((k \div 64) + 32 - (At(V, Y(Word)) % 32)) % 32
        c == ((k % 64) + 64 - (At(V, X(Word)) % 64)) % 64
    IN  IF r < BitAnd(Word, 15) /\ c < 8
        THEN (At(ram, I + r) \div 2^(7 - c)) % 2
        ELSE 0

\* C9: DXYN XORs the N sprite bytes memory[I..I+N-1] onto the display at row
\* (V[Y] + r) mod 32, column (V[X] + c) mod 64, and sets VF to 1 if a pixel
\* went from 1 to 0, else to 0.
C9_DrawXor ==
    [][/\ ClaimStep(61440, 53248)
       /\ Len(display) = 2048
       /\ I + BitAnd(Word, 15) <= Len(ram)
       => /\ error' = "none"
          /\ Len(display') = 2048
          /\ \A k \in 0..2047 :
                At(display', k) = (At(display, k) + SpriteBit(k)) % 2
          /\ Len(V') = 16
          /\ At(V', 15) = IF \E k \in 0..2047 :
                                 At(display, k) = 1 /\ SpriteBit(k) = 1
                          THEN 1 ELSE 0]_vars

\* C10: a cycle executing FX29 with V[X] <= 0xF sets I to 5 * V[X] and
\* changes no memory cell; with V[X] > 0xF it reports an error and changes
\* neither I nor memory.
C10_FontAddress ==
    [][ClaimStep(61695, 61481) =>
        IF At(V, X(Word)) <= 15
        THEN error' = "none" /\ I' = 5 * At(V, X(Word)) /\ ram' = ram
        ELSE error' # "none" /\ I' = I /\ ram' = ram]_vars

\* C11: a cycle executing 6XNN leaves V[X] = NN and leaves every other
\* register, I, the stack, memory and the display unchanged.
C11_LoadImmediate ==
    [][Cycle /\ TopNibble(Word) = 24576 =>
        /\ error' = "none"
        /\ InRange(V, X(Word))
        /\ V' = SetAt(V, X(Word), NN(Word))
        /\ UNCHANGED <<I, stack, sp, ram, display>>]_vars

\* C11 on a register file of sixteen registers.
C11_LoadImmediate16 ==
    [][ClaimStep(61440, 24576) =>
        /\ error' = "none"
        /\ V' = SetAt(V, X(Word), NN(Word))
        /\ UNCHANGED <<I, stack, sp, ram, display>>]_vars


\* The premise of C12's first half: an FX55 whose cells I..I+X are all in
\* memory; and of its second half: the FX65 with the same X and the same I
\* that follows such an FX55.
StoreStep == Cycle /\ BitAnd(Word, 61695) = 61525 /\ I + X(Word) <= 4095
LoadAfterStoreStep ==
    /\ Cycle
    /\ clock >= 1 /\ error = "none" /\ BitAnd(opcode, 61695) = 61525
    /\ BitAnd(Word, 61695) = 61541
    /\ X(Word) = X(opcode) /\ I = last.I /\ I + X(Word) <= 4095

\* What C12 says of the two steps.
StoreLoadEffect ==
    /\ StoreStep =>
        /\ error' = "none"
        /\ \A k \in 0..X(Word) : InRange(V, k)
        /\ Len(ram') = Len(ram)
        /\ \A a \in 0..(Len(ram) - 1) :
              At(ram', a) = IF a >= I /\ a <= I + X(Word)
                            THEN At(V, a - I) ELSE At(ram, a)
        /\ UNCHANGED <<V, I>>
    /\ LoadAfterStoreStep =>
        /\ error' = "none"
        /\ V' = last.V

\* C12: with I + X <= 0xFFF, FX55 sets memory[I + k] = V[k] for k in 0..X and
\* changes no other memory cell, no register and not I; a following FX65 with
\* the same X and I leaves V[0..X] as they were before the FX55 and the other
\* registers unchanged.
C12_StoreLoad == [][StoreLoadEffect]_vars

\* C12 on a register file of sixteen registers.
C12_StoreLoad16 == [][Len(V) = 16 => StoreLoadEffect]_vars

\* C12_StoreLoad16's case: an FX65 has followed an FX55 of non-zero registers.
C12_Case16 ==
    /\ clock >= 2 /\ error = "none" /\ BitAnd(opcode, 61695) = 61541
    /\ Len(V) = 16 /\ At(V, 0) = 200 /\ At(V, 1) = 100 /\ At(ram, 1) = 100


\* The fetched word matches no handler: its top nibble has none, or it is an
\* 8XY? word with a low nibble above 5, or an FX?? word whose low byte is
\* none of 29, 33, 55, 65.
NoHandler ==
    \/ Word \div 4096 \notin {1, 2, 3, 4, 5, 6, 7, 8, 10, 11, 12, 13, 15}
    \/ Word \div 4096 = 8 /\ Word % 16 > 5
    \/ Word \div 4096 = 15 /\ Word % 256 \notin {41, 51, 85, 101}

\* C13: a cycle whose fetched word matches no handler ends in an error and
\* halts the run; PC still holds the address of the word and no register,
\* memory cell, I, stack slot or display cell has changed.
C13_UnknownOpcode ==
    [][/\ Cycle /\ NoHandler =>
            /\ error' # "none"
            /\ pc' = pc
            /\ UNCHANGED <<V, ram, I, stack, sp, display>>
       /\ error # "none" => UNCHANGED vars]_vars

\* C13's case: the run has stopped on 8016, after V0 and V1 were set.
C13_Witness ==
    /\ error = "KeyError" /\ opcode = 32790 /\ pc = last.pc
    /\ Len(V) = 16 /\ At(V, 0) = 200 /\ At(V, 1) = 100


\* C14: a 2NNN with 16 calls not yet returned from, and a 00EE with none, is
\* reported as an error and touches no stack slot; in every state
\* 0 <= SP <= 15 and SP is the number of calls not yet returned from.
C14_StackBounds ==
    [][/\ Cycle /\ TopNibble(Word) = 8192 /\ calls >= 16 =>
            error' # "none" /\ UNCHANGED <<stack, sp>>
       /\ Cycle /\ Word = 238 /\ calls = 0 =>
            error' # "none" /\ UNCHANGED <<stack, sp>>
       /\ 0 <= sp' /\ sp' <= 15 /\ sp' = calls']_vars

\* C14's overflow case alone: the 17th nested call is reported as an error.
C14_Overflow ==
    [][Cycle /\ TopNibble(Word) = 8192 /\ calls >= 16 =>
            error' # "none" /\ UNCHANGED <<stack, sp>>]_vars


\* ---- C15 ----
\* The cycle about to start touches a memory address above 0xFFF: the fetch
\* at pc + 1, FX33 at I + 2, FX55 or FX65 at I + X, or the last sprite row
\* of DXYN at I + N - 1.
MemOutOfRange ==
    \/ pc + 1 > 4095
    \/ /\ Fetchable
       /\ \/ BitAnd(Word, 61695) = 61491 /\ I + 2 > 4095
          \/ BitAnd(Word, 61695) \in {61525, 61541} /\ I + X(Word) > 4095
          \/ /\ TopNibble(Word) = 53248
             /\ Word % 16 > 0
             /\ I + (Word % 16) - 1 > 4095

\* C15: a cycle whose instruction would touch an address above 0xFFF ends
\* in an error and transfers nothing (memory, registers, I and the display
\* keep their values), and after every step memory has exactly 4096 cells,
\* each in 0..255.
C15_MemoryBounds ==
    [][/\ clock' = clock + 1 /\ MemOutOfRange =>
            error' # "none" /\ UNCHANGED <<ram, V, I, display>>
       /\ Len(ram') = 4096
       /\ \A a \in 1..Len(ram') : ram'[a] \in 0..255]_vars

\* C15, the rejection alone.
C15_Rejected ==
    [][clock' = clock + 1 /\ MemOutOfRange =>
            error' # "none" /\ UNCHANGED <<ram, V, I, display>>]_vars

\* C15, the size of memory alone.
C15_RamSize == Len(ram) = 4096


\* ---- C16 ----
\* The step is a completed cycle whose count is a multiple of
\* clock_speed // 60.
TimerTick ==
    /\ clock' = clock + 1
    /\ error' = "none"
    /\ clock' % (clock_speed \div 60) = 0

\* C16: both timers stay in 0..255; a completed cycle whose count is a
\* multiple of clock_speed // 60 (8) takes 1 from each nonzero timer and
\* leaves a timer at 0 at 0; every other step leaves both timers unchanged.
C16_Timers ==
    [][/\ t_delay' \in 0..255 /\ t_sound' \in 0..255
       /\ TimerTick =>
            /\ t_delay' = IF t_delay > 0 THEN t_delay - 1 ELSE 0
            /\ t_sound' = IF t_sound > 0 THEN t_sound - 1 ELSE 0
       /\ ~TimerTick => UNCHANGED <<t_delay, t_sound>>]_vars

\* The 16th cycle has completed: the timers have been through two ticks.
C16_Witness ==
    /\ clock = 2 * (clock_speed \div 60)
    /\ error = "none"
    /\ t_delay = 0 /\ t_sound = 0


\* ---- C17 ----
\* C17: in every reachable state there are exactly sixteen registers and
\* each holds a value in 0..255.
C17_RegisterFile ==
    /\ Len(V) = 16
    /\ \A k \in 1..Len(V) : V[k] \in 0..255

\* ---- C18 ----
\* C18: in every reachable state the display buffer has exactly
\* 64 * 32 = 2048 cells and every cell is 0 or 1.
C18_DisplayBuffer ==
    /\ Len(display) = 64 * 32
    /\ \A k \in 1..Len(display) : display[k] \in {0, 1}

\* ---- C19 ----
\* C19: in every reachable state PC is a 12-bit address, 0 <= PC <= 0xFFF.
C19_PcInRange == 0 <= pc /\ pc <= 4095

\* ---- C20 ----
\* The cycle about to start executes a supported opcode whose operands are
\* in range: sixteen registers, no address above 0xFFF, fewer than sixteen
\* calls outstanding for 2NNN, a digit in V[X] for FX29.
SupportedInRange ==
    /\ Fetchable
    /\ ~NoHandler
    /\ ~MemOutOfRange
    /\ Len(V) = 16
    /\ TopNibble(Word) = 8192 => calls < 16
    /\ BitAnd(Word, 61695) = 61481 => At(V, X(Word)) <= 15

\* C20: a cycle that executes a supported opcode with in-range operands
\* completes and leaves the machine running, and once the machine has
\* halted no variable changes any more.
C20_HaltOnlyOnError ==
    [][/\ clock' = clock + 1 /\ SupportedInRange => error' = "none"
       /\ error # "none" => UNCHANGED vars]_vars

\* C20 for every supported opcode but 8XY5.
C20_Besides8XY5 ==
    [][/\ /\ clock' = clock + 1
          /\ SupportedInRange
          /\ BitAnd(Word, 61455) # 32773
          => error' = "none"
       /\ error # "none" => UNCHANGED vars]_vars

====
